---- MODULE Spec2Model ----
(***************************************************************************)
(* Model of the cursor-scoped connector of fondos.utils.backend.connect:   *)
(* the cursor stack kept by @cursor/_manage_cursor, the reentrant session  *)
(* scope _Transaction, the statement log _StatementLog, and the error      *)
(* taxonomy of fondos.utils.backend.errors.                                *)
(*                                                                         *)
(* The connector is driven by a client program: `frames` is the client's   *)
(* stack of open `with db.session:` blocks, `with db.log:` blocks and      *)
(* running bodies of non-lazy @cursor methods; `gens` are the lazy         *)
(* producers (generator objects of @cursor generator methods) the client   *)
(* holds; `exc` is the exception that is propagating, if any.  The driver  *)
(* (connection and cursors) is the environment: every call to it either    *)
(* returns or raises one of the driver's own exceptions.                   *)
(***************************************************************************)
EXTENDS Naturals, Integers, Sequences, FiniteSets, TLC

VARIABLES
    _transaction,   \* ConnectorWithCursor._transaction: session depth counter
    _cursor,        \* ConnectorWithCursor._cursor: stack of open cursors
    _buffer,        \* ConnectorWithCursor._buffer: text of the StringIO
    logger,         \* ConnectorWithCursor.logger: the sink ("sink") or None
    incontext,      \* _StatementLog.incontext
    trace_callback, \* the connection's trace hook is installed
    frames,         \* client: open scopes and running non-lazy bodies
    gens,           \* client: lazy producers
    exc,            \* client: the exception in flight (NoExc when none)
    calls,          \* driver and sink calls made by the step just taken
    closed,         \* the connection was closed (connection.close())
    names,          \* connectors: the class each attach() exposed by name
    _attached,      \* ConnectorWithCursor._attached of each connector
    nclass,         \* classes created by attach() so far
    obj,            \* client: the Record instance it works with
    rows,           \* client: the producer a get() call returned
    ret,            \* outcome of the last Record, attach or scraper operation
    scraper,        \* a ScraperBase instance: its private attributes
    linked,         \* a connect succeeded since the last disconnect
    requests        \* pages the scraper asked for in the step just taken

\* The cursor-scoped connector and the client's use of it.
connvars == <<_transaction, _cursor, _buffer, logger, incontext,
              trace_callback, frames, gens, exc, calls, closed>>

\* The Record classes, what the connectors have attached, and the client's
\* use of them.
regvars == <<names, _attached, nclass, obj, rows, ret>>

\* The scraper and the client's use of it.
scrvars == <<scraper, linked, requests>>

vars == <<connvars, regvars, scrvars>>

(***************************************************************************)
(* Bounds of the model.                                                    *)
(***************************************************************************)
\* The client holds at most MaxLive scopes, running bodies and unfinished
\* producers at once.
MaxLive == 3
MaxBuffer == 2
MaxUnder == 1

MaxGens == MaxLive

\* Enough identities for every cursor that can be referred to at once: a
\* running body or open producer refers to the cursor it pushed, and the
\* stack holds at most one cursor for each of them.
MaxCursors == 2 * MaxLive

(***************************************************************************)
(* Exceptions.  `native` tells an instance of the driver's Error family    *)
(* (db.BACKEND.Error) from everything else; `name` is type(e).__name__;    *)
(* `at` is the session depth at which it was raised (its traceback).       *)
(***************************************************************************)
Exc(nat, n, d) == [native |-> nat, name |-> n, at |-> d]

NoExc == Exc(FALSE, "none", 0)

\* The classes defined by fondos.utils.backend.errors (vars(errors)).
TaxonomyNames ==
    {"Error", "InterfaceError", "DatabaseError", "InternalError",
     "OperationalError", "ProgrammingError", "IntegrityError", "DataError",
     "NotSupportedError", "NotStandardError", "TransactionError"}

\* Class names of the driver's Error family the model draws failures from:
\* one that the taxonomy has a homonym for, and a driver-specific one.
NativeNames == {"OperationalError", "DriverSpecificError"}

\* What a driver call made at session depth d does: return (NoExc) or
\* raise an exception of the driver's Error family.
NativeErrors(d) == {Exc(TRUE, n, d) : n \in NativeNames}

\* On a closed connection the driver rejects every call (sqlite3:
\* ProgrammingError, "Cannot operate on a closed database").
DriverOutcomes(d) ==
    IF closed THEN {Exc(TRUE, "ProgrammingError", d)}
    ELSE {NoExc} \cup NativeErrors(d)

\* What application code in a body raises: an ordinary Python exception.
AppErrors(d) == {Exc(FALSE, "ValueError", d)}

BodyErrors(d) == NativeErrors(d) \cup AppErrors(d)

\* What calling the logger sink does: return, or raise an error of its own.
SinkOutcomes(d) == {NoExc, Exc(FALSE, "OSError", d)}

\* vars(errors).get(type(e).__name__, errors.NotStandardError)(e), raised
\* with the traceback of e.
Translate(e) ==
    Exc(FALSE,
        IF e.name \in TaxonomyNames THEN e.name ELSE "NotStandardError",
        e.at)

\* The `except db.BACKEND.Error` clause of _manage_cursor: what leaves the
\* try block when `e` was raised in the body.
ExceptClause(e) == IF e.native THEN Translate(e) ELSE e

\* The exception that leaves _manage_cursor when the body ended with
\* `pending` in flight and close() in the finally clause ended with `r`:
\* an exception raised by close() replaces the one in flight.
Leaves(pending, r) == IF r # NoExc THEN r ELSE ExceptClause(pending)

\* generator.close() absorbs the GeneratorExit it threw into the producer.
Delivered(e) == IF e.name = "GeneratorExit" THEN NoExc ELSE e

(***************************************************************************)
(* Helpers on the state.                                                   *)
(***************************************************************************)
\* session_opened with the comparison off by one: depth 0 passes as open.
session_opened_geq == _transaction >= 0

session_opened == _transaction > 0

Top(s) == s[Len(s)]
Front(s) == SubSeq(s, 1, Len(s) - 1)

\* A scope or running body of the client: its kind, the cursor it pushed
\* (0: none) and, for reference, the depth it was entered at (the session
\* depth for a session, the cursor stack depth for a body).
Frame(k, c, d) == [kind |-> k, cur |-> c, d0 |-> d]

\* A call to the driver or to the sink: what was called, on or returning
\* which cursor (0: none), and how it ended; `text` is the text handed to
\* the sink (empty for the calls to the driver).
Call(f, c, r) == [f |-> f, c |-> c, r |-> r, text |-> <<>>]

\* self.db.logger(self.db._buffer.getvalue()) ending with r.
LoggerCall(buf, r) == [Call("logger", 0, r) EXCEPT !.text = buf]

\* `if self.db._buffer:` tests the StringIO object, which defines neither
\* __bool__ nor __len__: the test is true whatever text it holds.
BufferTruthy(buf) == TRUE

\* A slot of `gens` that holds no producer.
NoGen == [st |-> "none", cur |-> 0, d0 |-> 0]

\* What the client holds.
Live == Len(frames) + Cardinality({g \in DOMAIN gens : gens[g].st # "none"})

(***************************************************************************)
(* Record classes (fondos.utils.backend.model) and their attachment to     *)
(* connectors (ConnectorWithCursor.attach).  A class is known by its name, *)
(* by the connectors the classes of its derivation chain were bound to by  *)
(* attach(), innermost last (`db`; empty for a class as it was declared),  *)
(* and by a serial number that tells apart the classes attach() creates.   *)
(***************************************************************************)
Connectors == {"A", "B"}

\* A word of a `_fields` declaration: a column name, and whether an
\* asterisk follows it.
Word(n, star) == [name |-> n, star |-> star]

\* The Record classes the program declares.
Declared == {"Cliente", "Cotizacion", "Adjunto"}

\* Their `_fields` declarations: "id* sexo", "id* attached" and
\* "isin* fecha*"; and those of Cuenta and Fondo (fondos.backend.model):
\* "id* isin comercializadora" and "isin* nombre alias gestora moneda
\* riesgo scraper scraper_data activo".
Declaration(n) ==
    IF n = "Cliente"
    THEN <<Word("id", TRUE), Word("sexo", FALSE)>>
    ELSE IF n = "Adjunto"
    THEN <<Word("id", TRUE), Word("attached", FALSE)>>
    ELSE IF n = "Cuenta"
    THEN <<Word("id", TRUE), Word("isin", FALSE),
           Word("comercializadora", FALSE)>>
    ELSE IF n = "Fondo"
    THEN <<Word("isin", TRUE), Word("nombre", FALSE), Word("alias", FALSE),
           Word("gestora", FALSE), Word("moneda", FALSE),
           Word("riesgo", FALSE), Word("scraper", FALSE),
           Word("scraper_data", FALSE), Word("activo", FALSE)>>
    ELSE <<Word("isin", TRUE), Word("fecha", TRUE)>>

\* RegisterMeta.__new__ on a declaration d: `fds`, the words in declared
\* order, each without its asterisk.
SplitFields(d) == [i \in DOMAIN d |-> d[i].name]

\* The positions of d whose word ends with the asterisk.
StarPositions(d) == {i \in DOMAIN d : d[i].star}

\* The p-th greatest element of a set of numbers.
RECURSIVE Nth_greatest(_, _)
Nth_greatest(S, p) ==
    LET m == CHOOSE x \in S : \A y \in S : x >= y
    IN  IF p = 1 THEN m ELSE Nth_greatest(S \ {m}, p - 1)

\* The p-th least element of a set of numbers.
RECURSIVE Nth(_, _)
Nth(S, p) ==
    LET m == CHOOSE x \in S : \A y \in S : x <= y
    IN  IF p = 1 THEN m ELSE Nth(S \ {m}, p - 1)

\* RegisterMeta.__new__ on a declaration d: `pk`, the words that ended
\* with the asterisk, appended as the loop met them.
SplitPk(d) ==
    [p \in 1..Cardinality(StarPositions(d)) |->
        d[Nth(StarPositions(d), p)].name]

\* RegisterMeta.__new__: `_fields`, the column names in declared order.
Fields(n) == SplitFields(Declaration(n))

\* The declared positions that carried the asterisk.
PkPositions(n) == StarPositions(Declaration(n))

\* RegisterMeta.__new__: `_pkfields`, the key columns in declared order.
PkFields(n) == SplitPk(Declaration(n))

FieldSet(n) == {Fields(n)[i] : i \in DOMAIN Fields(n)}

\* The values the program gives a column (the domain of its hooks).
Values(f) ==
    IF f = "sexo" THEN {"VARON", "Sexo.VARON"}
    ELSE IF f = "isin" THEN {"None", "ES1"}
    ELSE IF f = "fecha" THEN {"None", "2020"}
    ELSE {"None", "1"}

\* `_fdeco` of Cliente: n if isinstance(n, Sexo) else Sexo[n].
Sexo_decode(v) == IF v = "VARON" THEN "Sexo.VARON" ELSE v

\* `_fco` of Cliente: v.name.
Sexo_encode(v) == IF v = "Sexo.VARON" THEN "VARON" ELSE v

\* The lookup in `_fdeco` that always falls back to lambda n: n.
Decode_identity(n, f, v) == v

\* self._fdeco.get(name, lambda n: n)(value)
Decode(n, f, v) == IF n = "Cliente" /\ f = "sexo" THEN Sexo_decode(v) ELSE v

\* self._fco.get(name, lambda n: n)(value)
Encode(n, f, v) == IF n = "Cliente" /\ f = "sexo" THEN Sexo_encode(v) ELSE v

Class(n, chain, k) == [name |-> n, db |-> chain, id |-> k]

NoClass == Class("none", <<>>, 0)

DeclaredClass(n) == Class(n, <<>>, 0)

\* RegisterMeta.db: the `_db` nearest in the derivation chain, or None.
ClassDb(cls) == IF cls.db = <<>> THEN "None" ELSE cls.db[Len(cls.db)]

\* RegisterMeta.attached: `cls._db is not None`.  Looking up `_db` on a
\* class no ancestor of which was bound raises AttributeError.
ClassAttached(cls) ==
    IF cls.db = <<>> THEN "AttributeError"
    ELSE IF ClassDb(cls) # "None" THEN "True" ELSE "False"

\* A Record instance as Register.__init__ leaves it: its class, its
\* private slots, its `_attached` flag, assigned after the slots and so
\* replacing what a column named "attached" had stored; `given` keeps the
\* positional values it was constructed with, `fresh` tells that no slot
\* was written since.
Instance(cls, slots, att, given) ==
    [cls |-> cls,
     slots |-> [f \in DOMAIN slots \ {"attached"} |-> slots[f]],
     _attached |-> att, given |-> given, fresh |-> TRUE]

NoObj == [cls |-> NoClass]

\* Register.stored: `self._attached and type(self).db` (as a truth value).
Stored(o) == o._attached /\ ClassDb(o.cls) # "None"

\* getattr(self, "_" + f): the private attribute of column f.  The
\* attribute `_attached` is the one Register.__init__ assigns the flag to
\* after the columns were filled.
Attr(o, f) ==
    IF f = "attached"
    THEN (IF o._attached THEN "True" ELSE "False")
    ELSE o.slots[f]

\* The producer a get() call returned: the class it was called on, where
\* it stands, and the rows it has delivered.
Producer(cls, st, left) == [cls |-> cls, st |-> st, left |-> left]

NoRows == Producer(NoClass, "none", 0)

\* What an operation gave its caller: a value, or an exception; `body`
\* tells whether the subclass's body was run.
Scalar(v) == [kind |-> "scalar", v |-> <<v>>]

Tuple(vs) == [kind |-> "tuple", v |-> vs]

NoValue == [kind |-> "none", v |-> <<>>]

Outcome(op, val, e, body) ==
    [op |-> op, val |-> val, exc |-> e, body |-> body, hooks |-> <<>>]

\* The same, for an operation that applied hooks of `_fdeco` or `_fco`:
\* `hooks` lists the applications in the order they were made.
WithHooks(out, hs) == [out EXCEPT !.hooks = hs]

\* One application of a hook: which dictionary it came from, the column
\* and the argument.
HookCall(h, f, v) == [hook |-> h, field |-> f, arg |-> v]

\* The class gives column f a hook (Cliente: `_fdeco` and `_fco` both
\* have the key "sexo").
HasHook(n, f) == n = "Cliente" /\ f = "sexo"

NoRet == Outcome("none", NoValue, "none", FALSE)

\* A connector as ConnectorWithCursor.__init__ leaves it.
InitConnector ==
    /\ _transaction = 0
    /\ _cursor = <<>>
    /\ _buffer = <<>>
    /\ logger \in {"None", "sink"}
    /\ incontext = 0
    /\ trace_callback = FALSE
    /\ frames = <<>>
    /\ gens = [g \in 1..MaxGens |-> NoGen]
    /\ exc = NoExc
    /\ calls = <<>>
    /\ closed = FALSE

\* ScraperBase.disconnect: every private attribute is None.
Disconnected ==
    [_page |-> "None", _content_type |-> "None", _fecha |-> "None",
     _delta |-> "None", _cotizacion |-> "None"]

\* ScraperBase.__init__: `self.disconnect()`.
InitScraper ==
    /\ scraper = Disconnected
    /\ linked = FALSE
    /\ requests = <<>>

\* The client holds no instance and no producer yet; its scraper is as it
\* was constructed.
InitClient ==
    /\ obj = NoObj
    /\ rows = NoRows
    /\ ret = NoRet
    /\ InitScraper

Init ==
    /\ InitConnector
    /\ names = [c \in Connectors |-> [n \in Declared |-> NoClass]]
    /\ _attached = [c \in Connectors |-> {}]
    /\ nclass = 0
    /\ InitClient

(***************************************************************************)
(* with db.session: ...   (_Transaction.__enter__ / __exit__)              *)
(***************************************************************************)
SessionEnter ==
    /\ exc = NoExc
    /\ Live < MaxLive
    /\ _transaction' = _transaction + 1
    /\ frames' = Append(frames, Frame("session", 0, _transaction))
    /\ calls' = <<>>
    /\ UNCHANGED <<_cursor, _buffer, logger, incontext, trace_callback,
                   gens, exc>>
    /\ UNCHANGED <<regvars, scrvars, closed>>

\* The exit without its decrement.
Decrement_missing(d) == d

\* `self.db._transaction -= 1`
Decrement(d) == d - 1

\* The outermost test off by one: every exit passes for the outermost.
Outermost_geq(d) == d >= 0

\* `if self.db._transaction == 0:` the exit is the outermost one.
Outermost(d) == d = 0

\* The test of the pending exception inverted: `if exc:`.
NotExc_inverted(e) == e # NoExc

\* `if not exc:` no exception is in flight at the exit.
NotExc(e) == e = NoExc

\* `return True`: the exit swallows the exception in flight.
Returned_true(e) == NoExc

\* `return False`: the exception in flight goes on to the caller.
Returned(e) == e

\* The outermost exit with no exception pending: commit, then the sink.
ExitCommit ==
    \E r \in DriverOutcomes(0), s \in SinkOutcomes(0) :
        IF r # NoExc
        THEN /\ s = NoExc
             /\ exc' = r
             /\ calls' = <<Call("commit", 0, r)>>
             /\ UNCHANGED _buffer
        ELSE IF ~BufferTruthy(_buffer)
        THEN /\ s = NoExc
             /\ exc' = Returned(exc)
             /\ calls' = <<Call("commit", 0, r)>>
             /\ UNCHANGED _buffer
        ELSE IF logger = "None"
        THEN /\ s = NoExc
             /\ exc' = Exc(FALSE, "TypeError", 0)
             /\ calls' = <<Call("commit", 0, r)>>
             /\ UNCHANGED _buffer
        ELSE /\ exc' = IF s # NoExc THEN s ELSE Returned(exc)
             /\ calls' = <<Call("commit", 0, r), LoggerCall(_buffer, s)>>
             /\ _buffer' = IF s = NoExc THEN <<>> ELSE _buffer

\* The outermost exit with an exception pending: rollback.
ExitRollback ==
    \E r \in DriverOutcomes(0) :
        /\ exc' = IF r # NoExc THEN r ELSE Returned(exc)
        /\ calls' = <<Call("rollback", 0, r)>>
        /\ _buffer' = IF r = NoExc /\ BufferTruthy(_buffer) THEN <<>> ELSE _buffer

\* An exit that leaves the depth above 0.
ExitInner ==
    /\ exc' = Returned(exc)
    /\ calls' = <<>>
    /\ UNCHANGED _buffer

SessionExit ==
    /\ frames # <<>>
    /\ Top(frames).kind = "session"
    /\ frames' = Front(frames)
    /\ _transaction' = Decrement(_transaction)
    /\ IF Outermost(_transaction')
       THEN IF NotExc(exc) THEN ExitCommit ELSE ExitRollback
       ELSE ExitInner
    /\ UNCHANGED <<_cursor, logger, incontext, trace_callback, gens>>
    /\ UNCHANGED <<regvars, scrvars, closed>>

(***************************************************************************)
(* Cursors.  connection.cursor() returns a new object; the model names it  *)
(* by the least identity nothing refers to any more.                       *)
(***************************************************************************)
Referenced ==
    {_cursor[i] : i \in DOMAIN _cursor}
    \cup {frames[i].cur : i \in DOMAIN frames}
    \cup {gens[g].cur : g \in DOMAIN gens}

FreeCursors == (1..MaxCursors) \ Referenced

NewCursor == CHOOSE c \in FreeCursors : \A d \in FreeCursors : c <= d

OnStack(c) == \E i \in DOMAIN _cursor : _cursor[i] = c

(***************************************************************************)
(* @cursor on an ordinary method: _normal_cursor around _manage_cursor.    *)
(* OpCall is the entry of _manage_cursor up to `yield db`; the body then   *)
(* runs as further client steps; OpExit is what follows the body.          *)
(***************************************************************************)
OpCall ==
    /\ exc = NoExc
    /\ Live < MaxLive
    /\ IF ~session_opened
       THEN /\ exc' = Exc(FALSE, "TransactionError", _transaction)
            /\ calls' = <<>>
            /\ UNCHANGED <<_cursor, frames>>
       ELSE \E r \in DriverOutcomes(_transaction) :
            IF r # NoExc
            THEN /\ exc' = r
                 /\ calls' = <<Call("cursor", 0, r)>>
                 /\ UNCHANGED <<_cursor, frames>>
            ELSE /\ _cursor' = Append(_cursor, NewCursor)
                 /\ frames' = Append(frames, Frame("op", NewCursor, Len(_cursor)))
                 /\ exc' = NoExc
                 /\ calls' = <<Call("cursor", NewCursor, r)>>
    /\ UNCHANGED <<_transaction, _buffer, logger, incontext, trace_callback,
                   gens>>
    /\ UNCHANGED <<regvars, scrvars, closed>>

\* The except and finally clauses of _manage_cursor, run on cursor stack
\* `stack` for a body that ended with `pending` in flight (NoExc: it
\* returned) after making the driver calls `cs`: the cursor on top of the
\* stack is popped and closed.
ManageExit(stack, pending, cs) ==
    \E r \in DriverOutcomes(_transaction) :
        /\ _cursor' = Front(stack)
        /\ exc' = Delivered(Leaves(pending, r))
        /\ calls' = cs \o <<Call("close", Top(stack), r)>>

OpExit ==
    /\ frames # <<>>
    /\ Top(frames).kind = "op"
    /\ frames' = Front(frames)
    /\ ManageExit(_cursor, exc, <<>>)
    /\ UNCHANGED <<_transaction, _buffer, logger, incontext, trace_callback,
                   gens>>
    /\ UNCHANGED <<regvars, scrvars, closed>>

(***************************************************************************)
(* Statements.  The trace hook installed by _StatementLog.__enter__ is     *)
(* lambda s: buffer.write(f'{s};\n'); the driver calls it for a statement  *)
(* it runs.  Whether a statement that fails was traced before it failed    *)
(* is up to the driver.                                                    *)
(***************************************************************************)
Statements == {"INSERT", "SELECT"}

\* The hook writing the statement twice.
Write_twice(buf, s) == buf \o <<s, ";", "\n", s, ";", "\n">>

\* lambda s: buffer.write(f'{s};\n')
Write(buf, s) == buf \o <<s, ";", "\n">>

NStatements(buf) == Len(buf) \div 3

\* The buffer after the driver ran statement s with outcome r.
Traced(buf, s, r, seen) ==
    IF trace_callback /\ (r = NoExc \/ seen) THEN Write(buf, s) ELSE buf

\* The model stops tracing into a buffer that holds MaxBuffer statements.
Room == ~trace_callback \/ NStatements(_buffer) < MaxBuffer

\* self.execute(...) in a body: __getattr__ hands it to the cursor on top
\* of the stack.
Execute(s) ==
    /\ exc = NoExc
    /\ _cursor # <<>>
    /\ Room
    /\ \E r \in DriverOutcomes(_transaction), seen \in BOOLEAN :
        /\ (r = NoExc \/ ~trace_callback) => seen
        /\ _buffer' = Traced(_buffer, s, r, seen)
        /\ exc' = r
        /\ calls' = <<Call("execute", Top(_cursor), r)>>
    /\ UNCHANGED <<_transaction, _cursor, logger, incontext, trace_callback,
                   frames, gens>>
    /\ UNCHANGED <<regvars, scrvars, closed>>

(***************************************************************************)
(* @cursor on a generator method: _generator_cursor.  Calling it only      *)
(* creates the producer; _manage_cursor is entered at the first next().    *)
(* A slot of `gens` holds a producer from its creation until it finishes.  *)
(* The wrapped bodies are `self.execute(...); yield from self`: a request  *)
(* for a row ends with a row, with exhaustion or with an exception.        *)
(***************************************************************************)
\* A producer holds its state, the cursor it pushed (0: none) and, for
\* reference, the session depth it was created at.
GenSet(g, st, c) ==
    gens' = [gens EXCEPT ![g] =
                [st |-> st, cur |-> c,
                 d0 |-> IF st = "none" THEN 0 ELSE gens[g].d0]]

\* The producer function checking for an open session when it is called.
GenCreate_eager(g) ==
    /\ exc = NoExc
    /\ Live < MaxLive
    /\ gens[g].st = "none"
    /\ \A h \in 1..(g - 1) : gens[h].st # "none"
    /\ IF ~session_opened
       THEN /\ exc' = Exc(FALSE, "TransactionError", _transaction)
            /\ UNCHANGED gens
       ELSE /\ gens' = [gens EXCEPT ![g] =
                           [st |-> "created", cur |-> 0, d0 |-> _transaction]]
            /\ UNCHANGED exc
    /\ calls' = <<>>
    /\ UNCHANGED <<_transaction, _cursor, _buffer, logger, incontext,
                   trace_callback, frames>>
    /\ UNCHANGED <<regvars, scrvars, closed>>

\* Calling a generator function runs none of its body: the producer
\* exists, nothing else happened.
GenCreate(g) ==
    /\ exc = NoExc
    /\ Live < MaxLive
    /\ gens[g].st = "none"
    /\ \A h \in 1..(g - 1) : gens[h].st # "none"
    /\ gens' = [gens EXCEPT ![g] =
                    [st |-> "created", cur |-> 0, d0 |-> _transaction]]
    /\ calls' = <<>>
    /\ UNCHANGED <<_transaction, _cursor, _buffer, logger, incontext,
                   trace_callback, frames, exc>>
    /\ UNCHANGED <<regvars, scrvars, closed>>

\* The first next(): the entry of _manage_cursor, then the body up to its
\* first row.
GenStart(g) ==
    /\ exc = NoExc
    /\ gens[g].st = "created"
    /\ IF ~session_opened
       THEN /\ exc' = Exc(FALSE, "TransactionError", _transaction)
            /\ GenSet(g, "none", 0)
            /\ calls' = <<>>
            /\ UNCHANGED <<_cursor, _buffer>>
       ELSE \E r \in DriverOutcomes(_transaction) :
            IF r # NoExc
            THEN /\ exc' = r
                 /\ GenSet(g, "none", 0)
                 /\ calls' = <<Call("cursor", 0, r)>>
                 /\ UNCHANGED <<_cursor, _buffer>>
            ELSE /\ Room
                 /\ \E k \in {"row", "end", "raised"},
                       e \in BodyErrors(_transaction), seen \in BOOLEAN :
                    /\ (k # "raised" \/ ~e.native \/ ~trace_callback) => seen
                    /\ _buffer' = Traced(_buffer, "SELECT",
                                         IF k = "raised" /\ e.native
                                         THEN e ELSE NoExc, seen)
                    /\ IF k = "row"
                       THEN /\ _cursor' = Append(_cursor, NewCursor)
                            /\ GenSet(g, "open", NewCursor)
                            /\ exc' = NoExc
                            /\ calls' = <<Call("cursor", NewCursor, NoExc),
                                          Call("execute", NewCursor, NoExc)>>
                       ELSE /\ GenSet(g, "none", 0)
                            /\ ManageExit(
                                 Append(_cursor, NewCursor),
                                 IF k = "raised" THEN e ELSE NoExc,
                                 <<Call("cursor", NewCursor, NoExc),
                                   Call("execute", NewCursor,
                                        IF k = "raised" /\ e.native
                                        THEN e ELSE NoExc)>>)
    /\ UNCHANGED <<_transaction, logger, incontext, trace_callback, frames>>
    /\ UNCHANGED <<regvars, scrvars, closed>>

\* A later next(): the body goes on from its yield.
GenResume(g) ==
    /\ exc = NoExc
    /\ gens[g].st = "open"
    /\ \E k \in {"row", "end", "raised"}, e \in BodyErrors(_transaction) :
        IF k = "row"
        THEN /\ calls' = <<Call("fetch", gens[g].cur, NoExc)>>
             /\ UNCHANGED <<_cursor, gens, exc>>
        ELSE /\ GenSet(g, "none", 0)
             /\ ManageExit(_cursor, IF k = "raised" THEN e ELSE NoExc,
                           <<Call("fetch", gens[g].cur,
                                  IF k = "raised" /\ e.native
                                  THEN e ELSE NoExc)>>)
    /\ UNCHANGED <<_transaction, _buffer, logger, incontext, trace_callback,
                   frames>>
    /\ UNCHANGED <<regvars, scrvars, closed>>

\* generator.close() (or the producer being dropped): GeneratorExit is
\* thrown in at the yield; a producer that never started just ends.
GenClose(g) ==
    /\ exc = NoExc
    /\ gens[g].st \in {"created", "open"}
    /\ GenSet(g, "none", 0)
    /\ IF gens[g].st = "created"
       THEN /\ calls' = <<>>
            /\ UNCHANGED <<_cursor, exc>>
       ELSE ManageExit(_cursor, Exc(FALSE, "GeneratorExit", _transaction),
                       <<>>)
    /\ UNCHANGED <<_transaction, _buffer, logger, incontext, trace_callback,
                   frames>>
    /\ UNCHANGED <<regvars, scrvars, closed>>

(***************************************************************************)
(* with db.log: ...   (_StatementLog.__enter__ / __exit__)                 *)
(***************************************************************************)
NLog == Cardinality({i \in DOMAIN frames : frames[i].kind = "log"})

\* try: self.db.execute("BEGIN TRANSACTION") / except Exception: pass.
\* With no cursor on the stack the attribute lookup fails and nothing
\* reaches the driver; otherwise the driver runs the statement, and
\* whatever it raises is dropped.
Begin(buf, r, seen) ==
    IF _cursor = <<>> THEN buf ELSE Traced(buf, "BEGIN TRANSACTION", r, seen)

BeginCalls(r) ==
    IF _cursor = <<>> THEN <<>> ELSE <<Call("execute", Top(_cursor), r)>>

LogEnter ==
    /\ exc = NoExc
    /\ Live < MaxLive
    /\ incontext - NLog > -MaxUnder
    /\ Room
    /\ \E r \in DriverOutcomes(_transaction), seen \in BOOLEAN,
          t \in DriverOutcomes(_transaction) :
        /\ (_cursor = <<>>) => (r = NoExc)
        /\ (r = NoExc \/ ~trace_callback) => seen
        /\ _buffer' = Begin(_buffer, r, seen)
        /\ IF logger = "None" \/ incontext > 0
           THEN /\ t = NoExc
                /\ frames' = Append(frames, Frame("log", 0, incontext))
                /\ calls' = BeginCalls(r)
                /\ UNCHANGED <<incontext, trace_callback, exc>>
           ELSE /\ incontext' = incontext + 1
                /\ exc' = t
                /\ trace_callback' = IF t = NoExc THEN TRUE ELSE trace_callback
                /\ frames' = IF t = NoExc
                             THEN Append(frames, Frame("log", 0, incontext))
                             ELSE frames
                /\ calls' = BeginCalls(r)
                            \o <<Call("set_trace_callback", 0, t)>>
    /\ UNCHANGED <<_transaction, _cursor, logger, gens>>
    /\ UNCHANGED <<regvars, scrvars, closed>>

LogExit ==
    /\ frames # <<>>
    /\ Top(frames).kind = "log"
    /\ frames' = Front(frames)
    /\ incontext' = incontext - 1
    /\ IF exc = NoExc /\ incontext' = 0 /\ logger # "None"
       THEN \E t \in DriverOutcomes(_transaction) :
            /\ exc' = t
            /\ trace_callback' = IF t = NoExc THEN FALSE ELSE trace_callback
            /\ calls' = <<Call("set_trace_callback", 0, t)>>
       ELSE /\ calls' = <<>>
            /\ UNCHANGED <<trace_callback, exc>>
    /\ UNCHANGED <<_transaction, _cursor, _buffer, logger, gens>>
    /\ UNCHANGED <<regvars, scrvars, closed>>

(***************************************************************************)
(* Client code.                                                            *)
(***************************************************************************)
\* The client catches the exception in flight (try/except in a body, or
\* the program's top level receives it).
Catch ==
    /\ exc # NoExc
    /\ exc' = NoExc
    /\ calls' = <<>>
    /\ UNCHANGED <<_transaction, _cursor, _buffer, logger, incontext,
                   trace_callback, frames, gens>>
    /\ UNCHANGED <<regvars, scrvars, closed>>

\* SQLiteConector._init finding no table and no usable schema:
\* `self.close()` closes the connection (ConnectorWithCursor.close), then
\* `raise DatabaseError(msg)`, the class of the taxonomy.
InitNoSchema ==
    /\ exc = NoExc
    /\ ~closed
    /\ frames # <<>>
    /\ Top(frames).kind = "op"
    /\ closed' = TRUE
    /\ exc' = Exc(FALSE, "DatabaseError", _transaction)
    /\ calls' = <<Call("connection.close", 0, NoExc)>>
    /\ UNCHANGED <<_transaction, _cursor, _buffer, logger, incontext,
                   trace_callback, frames, gens>>
    /\ UNCHANGED <<regvars, scrvars>>

\* Application code in a body raises.
RaiseApp ==
    /\ exc = NoExc
    /\ \E e \in AppErrors(_transaction) : exc' = e
    /\ calls' = <<>>
    /\ UNCHANGED <<_transaction, _cursor, _buffer, logger, incontext,
                   trace_callback, frames, gens>>
    /\ UNCHANGED <<regvars, scrvars, closed>>

(***************************************************************************)
(* The client of Spec works with sessions, cursor-scoped methods and lazy  *)
(* producers; the client of SpecLog works with sessions, cursor-scoped     *)
(* methods and statement-log scopes.                                       *)
(***************************************************************************)
Next ==
    \/ SessionEnter
    \/ SessionExit
    \/ OpCall
    \/ OpExit
    \/ \E s \in Statements : Execute(s)
    \/ \E g \in 1..MaxGens : GenCreate(g)
    \/ \E g \in 1..MaxGens : GenStart(g)
    \/ \E g \in 1..MaxGens : GenResume(g)
    \/ \E g \in 1..MaxGens : GenClose(g)
    \/ Catch
    \/ RaiseApp

Spec == Init /\ [][Next]_vars

\* SQLiteConector.__init__ runs _init, a cursor-scoped method, inside a
\* session: the steps of SpecInit are those of a session, of a
\* cursor-scoped method and its statements, and the failure of _init.
NextInit ==
    \/ SessionEnter
    \/ SessionExit
    \/ OpCall
    \/ OpExit
    \/ \E s \in Statements : Execute(s)
    \/ InitNoSchema
    \/ Catch

SpecInit == Init /\ [][NextInit]_vars

NextLog ==
    \/ SessionEnter
    \/ SessionExit
    \/ OpCall
    \/ OpExit
    \/ \E s \in Statements : Execute(s)
    \/ LogEnter
    \/ LogExit
    \/ Catch
    \/ RaiseApp

SpecLog == Init /\ [][NextLog]_vars

(***************************************************************************)
(* Record instances: _Register.__init__ / __iter__ and Register.__init__.  *)
(***************************************************************************)
MaxClasses == 3
MaxChain == 2
MaxAttach == 2
MaxRows == 2

\* The classes the client can name: the declared ones and the ones the
\* connectors expose as attributes.
ClientClasses ==
    {DeclaredClass(n) : n \in Declared}
    \cup ({names[c][n] : c \in Connectors, n \in Declared} \ {NoClass})

Pos(n, f) == CHOOSE i \in DOMAIN Fields(n) : Fields(n)[i] = f

\* The columns the positional values do not reach.
Rest(n, args) == {Fields(n)[i] : i \in (Len(args) + 1)..Len(Fields(n))}

\* Keyword arguments are a set of <<name, value>> pairs, one for a name.
KwNames(kw) == {p[1] : p \in kw}

KwValue(kw, f) == (CHOOSE p \in kw : p[1] = f)[2]

\* Register.__init__(self, *args, attached=False, **kwargs): a keyword
\* `attached` binds to the parameter of that name and is no part of the
\* **kwargs handed on to _Register.__init__.
Kwargs(kw) == {p \in kw : p[1] # "attached"}

\* The value of the parameter `attached`, as a truth value.
AttachedArg(kw) ==
    "attached" \in KwNames(kw) /\ KwValue(kw, "attached") # "None"

\* _Register.__init__ accepting any number of positional values.
InitError_lenient(n, args, kw) ==
    IF Rest(n, args) \ KwNames(kw) # {} THEN "TypeError"
    ELSE IF KwNames(kw) \ Rest(n, args) # {} THEN "TypeError"
    ELSE "none"

\* _Register.__init__: the error it ends with, if any.
InitError(n, args, kw) ==
    IF Rest(n, args) \ KwNames(kw) # {} THEN "TypeError"
    ELSE IF KwNames(kw) \ Rest(n, args) # {} THEN "TypeError"
    ELSE IF Len(args) > Len(Fields(n)) THEN "TypeError"
    ELSE "none"

\* _Register.__init__: the private slots it fills, each value passed
\* through the column's decoding hook.
InitSlots(n, args, kw) ==
    [f \in FieldSet(n) |->
        Decode(n, f, IF Pos(n, f) <= Len(args) THEN args[Pos(n, f)] ELSE KwValue(kw, f))]

\* The value _Register.__init__ is given for the i-th column.
Supplied(n, args, kw, i) ==
    IF i <= Len(args) THEN args[i] ELSE KwValue(kw, Fields(n)[i])

\* The columns _Register.__init__ fills before it ends: the leading ones
\* that have a positional value or a keyword (the first column without
\* either raises TypeError).
Filled(n, args, kw) ==
    {i \in DOMAIN Fields(n) :
        \A j \in 1..i : j <= Len(args) \/ Fields(n)[j] \in KwNames(kw)}

\* The decoding hooks _Register.__init__ applies, in order.
DecodeCalls(n, args, kw) ==
    SelectSeq([i \in 1..Cardinality(Filled(n, args, kw)) |->
                  HookCall("_fdeco", Fields(n)[i], Supplied(n, args, kw, i))],
              LAMBDA h : HasHook(n, h.field))

\* The encoding hooks _Register.__iter__ applies, in order.
EncodeCalls(o) ==
    SelectSeq([i \in DOMAIN Fields(o.cls.name) |->
                  HookCall("_fco", Fields(o.cls.name)[i],
                           Attr(o, Fields(o.cls.name)[i]))],
              LAMBDA h : HasHook(o.cls.name, h.field))

\* _Register.__iter__: the slots in declared order, each passed through
\* the column's encoding hook.
Iter(o) ==
    [i \in DOMAIN Fields(o.cls.name) |->
        Encode(o.cls.name, Fields(o.cls.name)[i],
               Attr(o, Fields(o.cls.name)[i]))]

\* The sequences of k values, the i-th a value of the i-th column (None
\* beyond the last column).
RECURSIVE ValueLists(_, _)
ValueLists(n, k) ==
    IF k = 0 THEN {<<>>}
    ELSE {Append(a, v) : a \in ValueLists(n, k - 1),
                         v \in IF k <= Len(Fields(n))
                               THEN Values(Fields(n)[k]) ELSE {"None"}}

\* The positional values the client constructs with: none to one too many.
ArgLists(n) == UNION {ValueLists(n, k) : k \in 0..(Len(Fields(n)) + 1)}

\* The keyword arguments the client constructs with, given the positional
\* ones: none, the last column, or (with every column filled) a name that
\* is no column.
KwLists(n, args) ==
    {{}}
    \cup (IF Len(args) + 1 >= Len(Fields(n))
          THEN {{<<Fields(n)[Len(Fields(n))], v>>} :
                   v \in IF Len(args) < Len(Fields(n))
                         THEN Values(Fields(n)[Len(Fields(n))])
                         ELSE {"None"}}
          ELSE {})
    \cup (IF Len(args) = Len(Fields(n)) THEN {{<<"extra", "None">>}} ELSE {})

\* cls(*args, **kw): application code builds an instance; Register.__init__
\* leaves `_attached` at its default, False.
New(cls, args, kw) ==
    /\ LET e == InitError(cls.name, args, Kwargs(kw))
       IN  /\ ret' = WithHooks(Outcome("new", NoValue, e, FALSE),
                               DecodeCalls(cls.name, args, Kwargs(kw)))
           /\ obj' = IF e = "none"
                     THEN Instance(cls, InitSlots(cls.name, args, Kwargs(kw)),
                                   AttachedArg(kw), args)
                     ELSE obj
    /\ UNCHANGED <<names, _attached, nclass, rows>>
    /\ UNCHANGED <<connvars, scrvars>>

\* tuple(obj)
Iterate ==
    /\ obj # NoObj
    /\ ret' = WithHooks(Outcome("iter", Tuple(Iter(obj)), "none", FALSE),
                        EncodeCalls(obj))
    /\ UNCHANGED <<names, _attached, nclass, obj, rows>>
    /\ UNCHANGED <<connvars, scrvars>>

(***************************************************************************)
(* insert() and remove() as RegisterMeta.__init__ wraps them (dbassoc,     *)
(* dbdissoc).  The subclass's body is the environment: it returns or it    *)
(* raises.                                                                 *)
(***************************************************************************)
\* What an insert body returns: a generated key, or None.
InsertReturns == {"7", "None"}

\* What a body raises: an error of the taxonomy, or the interpreter's
\* KeyboardInterrupt, which is a BaseException and no Exception.
BodyRaises == {"IntegrityError", "KeyboardInterrupt"}

\* How a body ends: it returns a value or it raises.
Returns(v) == [raised |-> "none", res |-> v]

Raises(e) == [raised |-> e, res |-> "None"]

InsertBodies == {Returns(k) : k \in InsertReturns} \cup {Raises(e) : e \in BodyRaises}

RemoveBodies == {Returns("None")} \cup {Raises(e) : e \in BodyRaises}

\* `except Exception` catches e.
IsException(e) == e # "KeyboardInterrupt"

\* Register._set_id assigning the key whatever it reads.
SetIdObj_overwrite(o, id) ==
    IF Len(PkFields(o.cls.name)) = 1
    THEN [o EXCEPT !.slots[PkFields(o.cls.name)[1]] = id, !.fresh = FALSE]
    ELSE o

\* Register._set_id: the instance afterwards.
SetIdObj(o, id) ==
    IF Len(PkFields(o.cls.name)) = 1 /\ Attr(o, PkFields(o.cls.name)[1]) = "None"
    THEN [o EXCEPT !.slots[PkFields(o.cls.name)[1]] = id, !.fresh = FALSE]
    ELSE o

\* Register._set_id returning what the body returned.
SetIdValue_body(o, id) == Scalar(id)

\* Register._set_id: what it returns.
SetIdValue(o, id) ==
    IF Len(PkFields(o.cls.name)) = 1
    THEN Scalar(Attr(SetIdObj(o, id), PkFields(o.cls.name)[1]))
    ELSE Tuple([p \in DOMAIN PkFields(o.cls.name) |->
                   Attr(o, PkFields(o.cls.name)[p])])

\* `if not type(self).attached` (dbassoc) / `if not cls.attached` (makeobj)
NotAttached(cls) == ClassAttached(cls) = "False"

\* `self._attached = False` in the except clause of dbassoc.
Detached(o) == [o EXCEPT !._attached = FALSE]

\* The write-back skipped.
SetId_skipped(o, id) == o

\* `return self._set_id(res)`: the instance after the write-back.
SetId(o, id) == SetIdObj(o, id)

\* obj.insert(), the body ending with b.
Insert(b) ==
    /\ obj # NoObj
    /\ IF ClassAttached(obj.cls) = "AttributeError"
       THEN /\ ret' = Outcome("insert", NoValue, "AttributeError", FALSE)
            /\ UNCHANGED obj
       ELSE IF NotAttached(obj.cls)
       THEN /\ ret' = Outcome("insert", NoValue, "NotStandardError", FALSE)
            /\ UNCHANGED obj
       ELSE IF b.raised = "none"
       THEN /\ obj' = SetId([obj EXCEPT !._attached = TRUE], b.res)
            /\ ret' = Outcome("insert",
                              SetIdValue([obj EXCEPT !._attached = TRUE], b.res),
                              "none", TRUE)
       ELSE /\ obj' = IF IsException(b.raised)
                      THEN Detached([obj EXCEPT !._attached = TRUE])
                      ELSE [obj EXCEPT !._attached = TRUE]
            /\ ret' = Outcome("insert", NoValue, b.raised, TRUE)
    /\ UNCHANGED <<names, _attached, nclass, rows>>
    /\ UNCHANGED <<connvars, scrvars>>

\* The stored test inverted.
NotStored_inverted(o) == Stored(o)

\* `if not self.stored` (dbdissoc)
NotStored(o) == ~Stored(o)

\* The body's exception caught and the instance detached.
RemoveRaised_detached(o) == Detached(o)

\* `fremove(self)` raising: dbdissoc has no except clause, the assignment
\* after the call is not reached.
RemoveRaised(o) == o

\* obj.remove(), the body ending with b.
Remove(b) ==
    /\ obj # NoObj
    /\ IF NotStored(obj)
       THEN /\ ret' = Outcome("remove", Scalar("False"), "none", FALSE)
            /\ UNCHANGED obj
       ELSE IF b.raised = "none"
       THEN /\ obj' = [obj EXCEPT !._attached = FALSE]
            /\ ret' = Outcome("remove", Scalar("True"), "none", TRUE)
       ELSE /\ ret' = Outcome("remove", NoValue, b.raised, TRUE)
            /\ obj' = RemoveRaised(obj)
    /\ UNCHANGED <<names, _attached, nclass, rows>>
    /\ UNCHANGED <<connvars, scrvars>>

(***************************************************************************)
(* get() as RegisterMeta.__init__ wraps it (makeobj): a generator function *)
(* bound to the class whose creation wrapped it, which for a class made    *)
(* by attach() is that class.  The raw producer of the subclass's body is  *)
(* the environment: asked for a row, it gives one or it ends.              *)
(***************************************************************************)
\* A raw row of the class's table: one value for each column.
RawRows(n) == ValueLists(n, Len(Fields(n)))

\* The instance built from a raw row with its `_attached` left unset.
Made_detached(cls, reg) == Instance(cls, InitSlots(cls.name, reg, {}), FALSE, reg)

\* `cls(*reg, attached=True)`
Made(cls, reg) == Instance(cls, InitSlots(cls.name, reg, {}), TRUE, reg)

\* How the raw producer answers a request: with a row, with its end, or
\* with an exception.
Row(reg) == [raised |-> "none", res |-> reg]

End == [raised |-> "StopIteration", res |-> <<>>]

GetBodies(n) ==
    {Row(reg) : reg \in RawRows(n)} \cup {End}
    \cup {[raised |-> e, res |-> <<>>] : e \in BodyRaises}

\* cls.get(): the producer is created; nothing runs yet.
GetCall(cls) ==
    /\ rows' = Producer(cls, "created", 0)
    /\ ret' = Outcome("get", NoValue, "none", FALSE)
    /\ UNCHANGED <<names, _attached, nclass, obj>>
    /\ UNCHANGED <<connvars, scrvars>>

\* next() on the producer, the raw producer answering with b.
GetNext(b) ==
    /\ rows # NoRows
    /\ IF rows.st = "done"
       THEN /\ ret' = Outcome("next", NoValue, "StopIteration", FALSE)
            /\ UNCHANGED <<obj, rows>>
       ELSE IF rows.st = "created" /\ ClassAttached(rows.cls) = "AttributeError"
       THEN /\ ret' = Outcome("next", NoValue, "AttributeError", FALSE)
            /\ rows' = [rows EXCEPT !.st = "done"]
            /\ UNCHANGED obj
       ELSE IF rows.st = "created" /\ NotAttached(rows.cls)
       THEN /\ ret' = Outcome("next", NoValue, "NotStandardError", FALSE)
            /\ rows' = [rows EXCEPT !.st = "done"]
            /\ UNCHANGED obj
       ELSE IF b.raised = "none"
       THEN /\ rows.left < MaxRows
            /\ obj' = Made(rows.cls, b.res)
            /\ rows' = [rows EXCEPT !.st = "running", !.left = @ + 1]
            /\ ret' = WithHooks(Outcome("next", NoValue, "none", TRUE),
                                DecodeCalls(rows.cls.name, b.res, {}))
       ELSE /\ rows' = [rows EXCEPT !.st = "done"]
            /\ ret' = Outcome("next", NoValue, b.raised, TRUE)
            /\ UNCHANGED obj
    /\ UNCHANGED <<names, _attached, nclass>>
    /\ UNCHANGED <<connvars, scrvars>>

(***************************************************************************)
(* ConnectorWithCursor.attach(classes)                                     *)
(***************************************************************************)
\* hasattr(self, name), for the names of Record classes: an earlier
\* attach() exposed a class under that name.
HasAttr(nm, n) == nm[n] # NoClass

\* The conflict test that never finds a conflict.
Conflict_never(nm, n) == FALSE

\* `if hasattr(self, class_.__name__)`
Conflict(nm, n) == HasAttr(nm, n)

\* The for loop of attach() on connector c, from the state st of the
\* connector's names, its `_attached` set and the count of classes made.
RECURSIVE AttachLoop(_, _, _)
AttachLoop(c, cs, st) ==
    IF cs = <<>> THEN st
    ELSE LET class_ == Class(Head(cs).name, Append(Head(cs).db, c), st.n + 1)
             added == [st EXCEPT !.set = @ \cup {class_}, !.n = @ + 1]
         IN  IF Conflict(st.nm, class_.name)
             THEN [added EXCEPT !.exc = "AttributeError"]
             ELSE AttachLoop(c, Tail(cs),
                             [added EXCEPT !.nm[class_.name] = class_])

\* The lists of classes the client attaches.
AttachLists ==
    UNION {[1..k -> {cls \in ClientClasses : Len(cls.db) < MaxChain}] :
           k \in 1..MaxAttach}

\* c.attach(cs)
Attach(c, cs) ==
    /\ nclass + Len(cs) <= MaxClasses
    /\ LET end == AttachLoop(c, cs, [nm |-> names[c], set |-> _attached[c],
                                     n |-> nclass, exc |-> "none"])
       IN  /\ names' = [names EXCEPT ![c] = end.nm]
           /\ _attached' = [_attached EXCEPT ![c] = end.set]
           /\ nclass' = end.n
           /\ ret' = Outcome("attach", NoValue, end.exc, FALSE)
    /\ UNCHANGED <<obj, rows>>
    /\ UNCHANGED <<connvars, scrvars>>

(***************************************************************************)
(* class X(Register): _fields = "..."   (RegisterMeta.__new__)             *)
(***************************************************************************)
\* A declaration has at most MaxWords words.
MaxWords == 3

\* The words of the declarations the client writes: a column name, with
\* or without the asterisk.
Words == {Word(n, star) : n \in {"id", "isin", "fecha"}, star \in BOOLEAN}

Declarations == UNION {[1..k -> Words] : k \in 1..MaxWords}

\* What RegisterMeta.__new__ puts in the namespace of the class created
\* from declaration d.
Namespace(d) ==
    [kind |-> "namespace", v |-> <<d, SplitFields(d), SplitPk(d)>>]

\* A class statement with declaration d is executed.
ClassCreate(d) ==
    /\ ret' = Outcome("class", Namespace(d), "none", FALSE)
    /\ UNCHANGED <<names, _attached, nclass, obj, rows>>
    /\ UNCHANGED <<connvars, scrvars>>

(***************************************************************************)
(* Cuenta.fondo (fondos.backend.model): the fund of an account, looked up  *)
(* through the connector the first time it is read and kept on the         *)
(* instance in `_fondo`.                                                   *)
(***************************************************************************)
MaxLookups == 2

\* Cuenta as it was declared, and the class attach() made of it for
\* connector A.
CuentaClasses == {DeclaredClass("Cuenta"), Class("Cuenta", <<"A">>, 1)}

\* `self.db.Fondo`: the class attach() made of Fondo for connector c.
FondoClass(c) == Class("Fondo", <<c>>, 2)

\* `self._fondo` raises AttributeError until the attribute was assigned.
Cached(o) == "_fondo" \in DOMAIN o

\* The backend lookups made so far for the property of instance o.
Lookups(o) == IF "lookups" \in DOMAIN o THEN o.lookups ELSE 0

\* One more lookup made for o.
Looked(o) ==
    [x \in DOMAIN o \cup {"lookups"} |->
        IF x = "lookups" THEN Lookups(o) + 1 ELSE o[x]]

\* The assignment left out.
Cache_dropped(o, e) == o

\* `self._fondo = e`
Cache(o, e) ==
    [x \in DOMAIN o \cup {"_fondo"} |-> IF x = "_fondo" THEN e ELSE o[x]]

\* What the property returns: a Fondo instance.
Entity(e) == [kind |-> "entity", v |-> <<e>>]

\* Register.__getattr__ for the name "db": type(self).db when the instance
\* is `_attached`, else the attribute is missing.
InstanceDb(o) == IF o._attached THEN ClassDb(o.cls) ELSE "AttributeError"

\* The rows get_fondo(isin=...) selects: `if isin:` adds the condition
\* "isin = ?", so a false isin selects every fund.
FondoRows(isin) ==
    {<<i, n, "None", "None", "None", "None", "None", "None", "None">> :
        i \in IF isin = "None" THEN Values("isin") ELSE {isin},
        n \in Values("nombre")}

\* How `next(self.db.Fondo.get(isin=self.isin))` goes once the producer
\* runs: a first row, no row at all, or an exception of the query.
FondoBodies(isin) ==
    {Row(reg) : reg \in FondoRows(isin)} \cup {End}
    \cup {[raised |-> e, res |-> <<>>] : e \in BodyRaises}

\* Every way a query for a fund goes.
AllFondoBodies == UNION {FondoBodies(i) : i \in Values("isin")}

\* acc.fondo, the connector exposing Fondo or not (`exposed`) and the
\* query going as b.
Cuenta_fondo(exposed, b) ==
    /\ obj # NoObj
    /\ obj.cls.name = "Cuenta"
    /\ b \in FondoBodies(Attr(obj, "isin"))
    /\ IF Cached(obj)
       THEN /\ ret' = Outcome("fondo", Entity(obj._fondo), "none", FALSE)
            /\ UNCHANGED obj
       ELSE IF InstanceDb(obj) \in {"AttributeError", "None"} \/ ~exposed
       THEN /\ ret' = Outcome("fondo", NoValue, "AttributeError", FALSE)
            /\ UNCHANGED obj
       ELSE IF ~session_opened
       THEN /\ ret' = Outcome("fondo", NoValue, "TransactionError", FALSE)
            /\ UNCHANGED obj
       ELSE /\ Lookups(obj) < MaxLookups
            /\ IF b.raised = "none"
               THEN LET e == Made(FondoClass(InstanceDb(obj)), b.res)
                    IN  /\ obj' = Cache(Looked(obj), e)
                        /\ ret' = Outcome("fondo", Entity(e), "none", TRUE)
               ELSE /\ obj' = Looked(obj)
                    /\ ret' = Outcome("fondo", NoValue, b.raised, TRUE)
    /\ UNCHANGED <<names, _attached, nclass, rows>>
    /\ UNCHANGED <<connvars, scrvars>>

(***************************************************************************)
(* ScraperBase (fondos.scraper): connect, extract, cotizacion, disconnect. *)
(* The web server and the plugin's _parse are the environment.             *)
(***************************************************************************)
\* The dates and spans the client asks for.
Fechas == {"None", "2016-12-31"}

Deltas == {"None", "30"}

\* What urlopen does: it raises URLError, or it returns a response with
\* its status code, its body and its content type.
Response(code, page, ct) ==
    [raised |-> "none", code |-> code, page |-> page, ct |-> ct]

URLError == [raised |-> "URLError", code |-> 0, page |-> "None", ct |-> "None"]

Responses ==
    {URLError}
    \cup {Response(code, page, ct) : code \in {200, 404},
                                     page \in {"page1", "page2"},
                                     ct \in {"text/csv", "text/html"}}

\* What self._parse() does when extract calls it: it returns the quotes
\* (the plugins return a generator over the page), or it raises ParseError.
ParseOutcomes == {"quotes", "ParseError"}

\* ScraperBase.connected: `self._page is not None`.
connected(s) == s._page # "None"

\* A request made with urlopen for the URL of (fecha, delta).
Request(fecha, delta) == [fecha |-> fecha, delta |-> delta]

\* How connect(fecha, delta) ends when the server answers resp.
ConnectError(resp) ==
    IF resp.raised # "none" \/ resp.code # 200
    THEN "ConnectionError" ELSE "none"

\* connect() assigning the page also when the status is not 200.
ConnectState_always(s, fecha, delta, resp) ==
    IF resp.raised # "none" THEN s
    ELSE [s EXCEPT !._page = resp.page, !._content_type = resp.ct,
                   !._delta = delta, !._fecha = fecha]

\* The scraper after connect(fecha, delta), the server answering resp.
ConnectState(s, fecha, delta, resp) ==
    IF ConnectError(resp) # "none" THEN s
    ELSE [s EXCEPT !._page = resp.page, !._content_type = resp.ct,
                   !._delta = delta, !._fecha = fecha]

\* The parse guarded as if reparse were never asked for.
ExtractError_strict(s, reparse, resp, parsed) ==
    IF connected(s)
    THEN "AlreadyConnectedError"
    ELSE IF ConnectError(resp) # "none"
    THEN ConnectError(resp)
    ELSE IF parsed = "ParseError" THEN "ParseError" ELSE "none"

\* How extract(reparse) ends, the server answering resp if it is asked and
\* _parse ending with `parsed` if it is called.
ExtractError(s, reparse, resp, parsed) ==
    IF connected(s) /\ ~reparse
    THEN "AlreadyConnectedError"
    ELSE IF ~connected(s) /\ ConnectError(resp) # "none"
    THEN ConnectError(resp)
    ELSE IF parsed = "ParseError" THEN "ParseError" ELSE "none"

\* The requests extract(reparse) makes: one, with the stored date and
\* span, when the scraper is not connected.
ExtractRequests(s, reparse) ==
    IF connected(s) THEN <<>> ELSE <<Request(s._fecha, s._delta)>>

\* The scraper after extract(reparse).
ExtractState(s, reparse, resp, parsed) ==
    IF connected(s) /\ ~reparse THEN s
    ELSE LET c == IF connected(s) THEN s
                  ELSE ConnectState(s, s._fecha, s._delta, resp)
         IN  IF connected(c) /\ parsed = "quotes"
             THEN [c EXCEPT !._cotizacion = "quotes"]
             ELSE c

\* s.connect(fecha, delta)
Connect(fecha, delta, resp) ==
    /\ scraper' = ConnectState(scraper, fecha, delta, resp)
    /\ linked' = (linked \/ ConnectError(resp) = "none")
    /\ requests' = <<Request(fecha, delta)>>
    /\ ret' = Outcome("connect", NoValue, ConnectError(resp), FALSE)
    /\ UNCHANGED <<names, _attached, nclass, obj, rows>>
    /\ UNCHANGED connvars

\* s.extract(reparse)
Extract(reparse, resp, parsed) ==
    /\ scraper' = ExtractState(scraper, reparse, resp, parsed)
    /\ linked' = (linked \/ (~connected(scraper)
                                 /\ ConnectError(resp) = "none"))
    /\ requests' = ExtractRequests(scraper, reparse)
    /\ ret' = Outcome("extract", NoValue,
                      ExtractError(scraper, reparse, resp, parsed), FALSE)
    /\ UNCHANGED <<names, _attached, nclass, obj, rows>>
    /\ UNCHANGED connvars

\* s.cotizacion: `if not self._cotizacion: self.extract(reparse=True)`, then
\* `return self._cotizacion`.
Cotizacion(resp, parsed) ==
    /\ IF scraper._cotizacion # "None"
       THEN /\ ret' = Outcome("cotizacion", Scalar(scraper._cotizacion),
                              "none", FALSE)
            /\ requests' = <<>>
            /\ UNCHANGED <<scraper, linked>>
       ELSE /\ scraper' = ExtractState(scraper, TRUE, resp, parsed)
            /\ linked' = (linked \/ (~connected(scraper)
                                         /\ ConnectError(resp) = "none"))
            /\ requests' = ExtractRequests(scraper, TRUE)
            /\ ret' = LET e == ExtractError(scraper, TRUE, resp, parsed)
                      IN  Outcome("cotizacion",
                                  IF e = "none" THEN Scalar(scraper'._cotizacion)
                                  ELSE NoValue,
                                  e, TRUE)
    /\ UNCHANGED <<names, _attached, nclass, obj, rows>>
    /\ UNCHANGED connvars

\* s.disconnect()
Disconnect ==
    /\ scraper' = Disconnected
    /\ linked' = FALSE
    /\ requests' = <<>>
    /\ ret' = Outcome("disconnect", NoValue, "none", FALSE)
    /\ UNCHANGED <<names, _attached, nclass, obj, rows>>
    /\ UNCHANGED connvars

\* What the program attaches when it starts: nothing, or its Record
\* classes to connector A in one call.
Startups == {<<>>, <<DeclaredClass("Cliente"), DeclaredClass("Cotizacion")>>}

\* The state after the connectors were built and the program attached its
\* classes.
InitReg ==
    /\ InitConnector
    /\ \E cs \in Startups :
         LET end == AttachLoop("A", cs,
                               [nm |-> [n \in Declared |-> NoClass],
                                set |-> {}, n |-> 0, exc |-> "none"])
         IN  /\ names = [c \in Connectors |->
                            IF c = "A" THEN end.nm
                            ELSE [n \in Declared |-> NoClass]]
             /\ _attached = [c \in Connectors |->
                                IF c = "A" THEN end.set ELSE {}]
             /\ nclass = end.n
    /\ InitClient

\* The client of SpecReg builds instances of the Record classes, reads
\* them, inserts and removes them.
NextReg ==
    \/ \E cls \in ClientClasses :
       \E args \in ArgLists(cls.name) : \E kw \in KwLists(cls.name, args) :
           New(cls, args, kw)
    \/ Iterate
    \/ \E b \in InsertBodies : Insert(b)
    \/ \E b \in RemoveBodies : Remove(b)

SpecReg == InitReg /\ [][NextReg]_vars

\* The client of SpecGet queries the Record classes with get() and removes
\* or inserts again what it got.
NextGet ==
    \/ \E cls \in ClientClasses : GetCall(cls)
    \/ \E b \in GetBodies(rows.cls.name) : GetNext(b)
    \/ \E b \in InsertBodies : Insert(b)
    \/ \E b \in RemoveBodies : Remove(b)

SpecGet == InitReg /\ [][NextGet]_vars

\* The client of SpecFields declares Record classes.
NextFields ==
    \/ \E d \in Declarations : ClassCreate(d)

SpecFields == Init /\ [][NextFields]_vars

\* The client of SpecFondo opens and closes sessions, builds accounts
\* giving every column its value, inserts and removes them, and reads
\* their fund.
NextFondo ==
    \/ SessionEnter
    \/ SessionExit
    \/ Catch
    \/ \E cls \in CuentaClasses : \E args \in RawRows(cls.name) :
           New(cls, args, {})
    \/ \E b \in InsertBodies : Insert(b)
    \/ \E b \in RemoveBodies : Remove(b)
    \/ \E exposed \in BOOLEAN : \E b \in AllFondoBodies :
           Cuenta_fondo(exposed, b)

SpecFondo == Init /\ [][NextFondo]_vars

\* The client of SpecScraper connects, extracts, reads the quotes and
\* disconnects.
NextScraper ==
    \/ \E fecha \in Fechas, delta \in Deltas, resp \in Responses :
           Connect(fecha, delta, resp)
    \/ \E reparse \in BOOLEAN, resp \in Responses, parsed \in ParseOutcomes :
           Extract(reparse, resp, parsed)
    \/ \E resp \in Responses, parsed \in ParseOutcomes :
           Cotizacion(resp, parsed)
    \/ Disconnect

SpecScraper == Init /\ [][NextScraper]_vars

\* The client of SpecAttach attaches Record classes to connectors.
NextAttach ==
    \/ \E c \in Connectors : \E cs \in AttachLists : Attach(c, cs)

SpecAttach == Init /\ [][NextAttach]_vars

(***************************************************************************)
(* Vocabulary of the properties.                                           *)
(***************************************************************************)
CountCalls(cs, f) == Cardinality({i \in DOMAIN cs : cs[i].f = f})

CalledIn(cs, f) == CountCalls(cs, f) > 0

Closes(cs, c) == \E i \in DOMAIN cs : cs[i].f = "close" /\ cs[i].c = c

SessionCount ==
    Cardinality({i \in DOMAIN frames : frames[i].kind = "session"})

(***************************************************************************)
(* C1.  A cursor-scoped operation run at session depth 0 fails with        *)
(* TransactionError before any backend call: no cursor is requested, the   *)
(* cursor stack is unchanged and the wrapped body does not run (no body    *)
(* is entered, no producer is left open, nothing is executed).             *)
(***************************************************************************)
\* What a refused call leaves behind.
C1_Refused ==
    /\ exc'.name = "TransactionError"
    /\ ~exc'.native
    /\ calls' = <<>>
    /\ _cursor' = _cursor
    /\ frames' = frames

C1_NoSessionNoCursor ==
    [][ _transaction = 0 =>
            /\ OpCall => (C1_Refused /\ gens' = gens)
            /\ \A g \in 1..MaxGens :
                   GenStart(g) => (C1_Refused /\ gens'[g].st = "none") ]_vars

C1_Witness ==
    /\ _transaction = 0
    /\ exc.name = "TransactionError"
    /\ exc.at = 0
    /\ calls = <<>>
    /\ _cursor = <<>>

(***************************************************************************)
(* C2.  commit() and rollback() are called only by the session exit that   *)
(* brings the depth back to 0; an exit that leaves the depth above 0       *)
(* calls neither (it calls nothing at all).                                *)
(***************************************************************************)
C2_OnlyOutermostExit ==
    [][ /\ (CalledIn(calls', "commit") \/ CalledIn(calls', "rollback")) =>
               (SessionExit /\ _transaction = 1 /\ _transaction' = 0)
        /\ (SessionExit /\ _transaction' > 0) => calls' = <<>> ]_vars

\* An inner scope was left with an exception in flight: the exception was
\* raised deeper than the depth now, and the step called nothing.
C2_Witness ==
    /\ _transaction > 0
    /\ exc # NoExc
    /\ exc.at > _transaction
    /\ calls = <<>>

(***************************************************************************)
(* C3.  An outermost session scope ends with exactly one physical action:  *)
(* its exit calls commit once (and rollback not at all) when no exception  *)
(* is pending and rollback once (and commit not at all) when one is; no    *)
(* other step calls either.                                                *)
(***************************************************************************)
C3_OnePhysicalAction ==
    [][ IF SessionExit /\ _transaction' = 0
        THEN IF exc = NoExc
             THEN /\ CountCalls(calls', "commit") = 1
                  /\ CountCalls(calls', "rollback") = 0
             ELSE /\ CountCalls(calls', "rollback") = 1
                  /\ CountCalls(calls', "commit") = 0
        ELSE /\ CountCalls(calls', "commit") = 0
             /\ CountCalls(calls', "rollback") = 0 ]_vars

C3_Witness ==
    /\ _transaction = 0
    /\ SessionCount = 0
    /\ exc # NoExc
    /\ CountCalls(calls, "rollback") = 1
    /\ CountCalls(calls, "commit") = 0

(***************************************************************************)
(* C4.  With nested session scopes, an exception raised inside an inner    *)
(* scope (at depth 2 or more) passes the inner exits unchanged, and the    *)
(* exit of the outermost scope answers it with one rollback and no commit  *)
(* and leaves the depth at 0.                                              *)
(***************************************************************************)
C4_InnerExceptionRollsBack ==
    [][ (SessionExit /\ exc # NoExc /\ exc.at >= 2) =>
            IF Top(frames).d0 = 0
            THEN /\ _transaction' = 0
                 /\ CountCalls(calls', "rollback") = 1
                 /\ CountCalls(calls', "commit") = 0
            ELSE /\ exc' = exc
                 /\ calls' = <<>> ]_vars

C4_Witness ==
    /\ _transaction = 0
    /\ frames = <<>>
    /\ exc.at >= 2
    /\ CalledIn(calls, "rollback")
    /\ ~CalledIn(calls, "commit")

(***************************************************************************)
(* C5.  The depth counter equals the number of session scopes entered and  *)
(* not yet exited, so it is never negative; an enter adds exactly 1, and   *)
(* an exit, with or without an exception pending, restores the value the   *)
(* counter had before the matching enter.                                  *)
(***************************************************************************)
C5_DepthCountsScopes ==
    /\ [](_transaction >= 0 /\ _transaction = SessionCount)
    /\ [][ /\ SessionEnter => _transaction' = _transaction + 1
           /\ SessionExit => _transaction' = Top(frames).d0 ]_vars

\* The outermost exit whose commit raised has still restored depth 0.
C5_Witness ==
    /\ _transaction = 0
    /\ frames = <<>>
    /\ exc.native
    /\ CalledIn(calls, "commit")

(***************************************************************************)
(* C6.  The cursor a cursor-scoped operation pushed is popped and closed   *)
(* when the operation is left, on every exit path: return or exception of  *)
(* a non-lazy body, exhaustion, exception or close of a lazy producer.     *)
(* For a non-lazy operation the cursor stack is as deep when the call is   *)
(* left as it was when the call was made.                                  *)
(***************************************************************************)
C6_OwnCursorClosedOnExit ==
    [][ /\ OpExit =>
               /\ Closes(calls', Top(frames).cur)
               /\ \A i \in DOMAIN _cursor' : _cursor'[i] # Top(frames).cur
               /\ Len(_cursor') = Top(frames).d0
        /\ \A g \in 1..MaxGens :
               ((GenResume(g) \/ GenClose(g)) /\ gens[g].st = "open"
                    /\ gens'[g].st = "none") =>
                   /\ Closes(calls', gens[g].cur)
                   /\ \A i \in DOMAIN _cursor' : _cursor'[i] # gens[g].cur
      ]_vars

(***************************************************************************)
(* C7.  The cursor of a lazy producer stays open, that is on the stack and *)
(* not closed, from the first row request until the producer is exhausted  *)
(* or closed; creating the producer or yielding a row closes no cursor.    *)
(***************************************************************************)
C7_ProducerCursorStaysOpen ==
    /\ [](\A g \in 1..MaxGens : gens[g].st = "open" => OnStack(gens[g].cur))
    /\ [][ \A g \in 1..MaxGens :
               (GenCreate(g) \/ (GenStart(g) /\ gens'[g].st = "open")
                    \/ (GenResume(g) /\ gens'[g].st = "open")) =>
                   ~CalledIn(calls', "close") ]_vars

(***************************************************************************)
(* C8.  A backend-native exception raised inside the body of a             *)
(* cursor-scoped operation reaches the caller as the taxonomy class of     *)
(* the same name, or as NotStandardError when the taxonomy has no class    *)
(* of that name, with its traceback; it never reaches the caller as the    *)
(* native exception.                                                       *)
(***************************************************************************)
C8_Homonym(e) ==
    Exc(FALSE, IF e.name \in TaxonomyNames THEN e.name ELSE "NotStandardError",
        e.at)

\* The native exception the body of a producer raised in the step taken.
C8_RaisedIn(cs, e) ==
    \E i \in DOMAIN cs : cs[i].f \in {"execute", "fetch"} /\ cs[i].r = e

C8_NativeReachesCallerTranslated ==
    [][ /\ (OpExit /\ exc.native) => exc' = C8_Homonym(exc)
        /\ \A g \in 1..MaxGens : \A e \in NativeErrors(_transaction) :
               ((GenStart(g) \/ GenResume(g)) /\ C8_RaisedIn(calls', e)) =>
                   exc' = C8_Homonym(e) ]_vars

(***************************************************************************)
(* C9.  No backend-native exception leaks past the connector: when the     *)
(* driver fails in a connector operation (acquiring the cursor, running    *)
(* the body, closing the cursor, commit or rollback at the outermost       *)
(* session exit), the caller receives a member of the taxonomy.            *)
(***************************************************************************)
C9_DriverFailed(cs) == \E i \in DOMAIN cs : cs[i].r.native

C9_NoNativeLeak ==
    [][ ((SessionExit \/ OpCall \/ OpExit
            \/ \E g \in 1..MaxGens : GenStart(g) \/ GenResume(g) \/ GenClose(g))
         /\ (C9_DriverFailed(calls') \/ exc.native)) =>
            (~exc'.native /\ exc'.name \in TaxonomyNames) ]_vars

(***************************************************************************)
(* C10.  An exception raised inside a session scope is neither swallowed   *)
(* nor replaced by the scope: after every session exit, the outermost one  *)
(* with its rollback included, the exception in flight is the one that     *)
(* was in flight before.                                                   *)
(***************************************************************************)
C10_ExceptionUnchanged ==
    [][ (SessionExit /\ exc # NoExc) => exc' = exc ]_vars

(***************************************************************************)
(* C11.  At the outermost session exit with no exception pending the       *)
(* connection is committed, the sink is called with the buffered text if   *)
(* and only if the buffer holds text and a sink is configured (never with  *)
(* empty text, never without a sink), and afterwards the buffer is empty.  *)
(***************************************************************************)
C11_CommitFlushesText ==
    [][ (SessionExit /\ _transaction' = 0 /\ exc = NoExc) =>
            /\ CountCalls(calls', "commit") = 1
            /\ CalledIn(calls', "logger") <=>
                   (_buffer # <<>> /\ logger # "None")
            /\ (logger = "None" /\ ~C9_DriverFailed(calls')) => exc' = NoExc
            /\ _buffer' = <<>> ]_vars

(***************************************************************************)
(* C12.  At the outermost session exit with an exception pending the       *)
(* connection is rolled back, the sink is not called and the buffer is     *)
(* emptied; the text captured during the transaction being gone, no later  *)
(* commit can deliver it.                                                  *)
(***************************************************************************)
C12_RollbackDiscardsText ==
    [][ (SessionExit /\ _transaction' = 0 /\ exc # NoExc) =>
            /\ CountCalls(calls', "rollback") = 1
            /\ ~CalledIn(calls', "logger")
            /\ _buffer' = <<>> ]_vars

(***************************************************************************)
(* C13.  For a class with a single key column bound to a connector: when   *)
(* the key of an instance reads None before insert() and the body returns  *)
(* K without raising, afterwards the key reads K, insert() returned K and  *)
(* the instance is stored.                                                 *)
(***************************************************************************)
C13_KeyWrittenBack ==
    [][ \A k \in InsertReturns :
            (Insert(Returns(k)) /\ ret'.exc = "none"
                /\ Len(PkFields(obj.cls.name)) = 1
                /\ obj.slots[PkFields(obj.cls.name)[1]] = "None") =>
                /\ obj'.slots[PkFields(obj.cls.name)[1]] = k
                /\ ret'.val = Scalar(k)
                /\ Stored(obj') ]_vars

C13_Witness ==
    /\ ret.op = "insert"
    /\ ret.exc = "none"
    /\ ret.val = Scalar("7")
    /\ obj.cls.name = "Cliente"
    /\ ~obj.fresh
    /\ obj.slots["id"] = "7"
    /\ Stored(obj)

(***************************************************************************)
(* C14.  If the insert body raises, the instance is left detached, the     *)
(* same exception reaches the caller and no key is written back, whatever  *)
(* the attachment state was before.                                        *)
(***************************************************************************)
C14_BodyRaisesDetaches ==
    [][ \A e \in BodyRaises :
            (Insert(Raises(e)) /\ ret'.body) =>
                /\ ~Stored(obj')
                /\ ret'.exc = e
                /\ obj'.slots = obj.slots ]_vars

(***************************************************************************)
(* C15.  insert() on an instance of a class that is bound to no connector  *)
(* fails with NotStandardError before the body runs and leaves the         *)
(* instance detached.                                                      *)
(***************************************************************************)
C15_UnboundInsertRefused ==
    [][ \A b \in InsertBodies :
            (Insert(b) /\ obj.cls.db = <<>>) =>
                /\ ret'.exc = "NotStandardError"
                /\ ~ret'.body
                /\ ~Stored(obj') ]_vars

(***************************************************************************)
(* C16.  remove() on an instance that is not stored returns false without  *)
(* running the body and without changing the instance; on a stored         *)
(* instance it runs the body and, the body done, marks the instance        *)
(* detached and returns true; a second remove() in a row returns false.    *)
(***************************************************************************)
C16_RemoveOnlyStored ==
    [][ \A b \in RemoveBodies :
            Remove(b) =>
                /\ IF ~(obj._attached /\ obj.cls.db # <<>>)
                   THEN /\ ret'.val = Scalar("False")
                        /\ ret'.exc = "none"
                        /\ ~ret'.body
                        /\ obj' = obj
                   ELSE /\ ret'.body
                        /\ b.raised = "none" =>
                               /\ ret'.val = Scalar("True")
                               /\ ret'.exc = "none"
                               /\ ~Stored(obj')
                /\ (ret.op = "remove" /\ ret.exc = "none"
                        /\ ret.val = Scalar("True")) =>
                       (ret'.val = Scalar("False") /\ ~ret'.body) ]_vars

C16_Witness ==
    /\ ret.op = "remove"
    /\ ret.body
    /\ ret.exc = "none"
    /\ ret.val = Scalar("True")
    /\ obj.cls.db # <<>>
    /\ ~obj._attached

(***************************************************************************)
(* C17.  get() on a connector-bound class is lazy (the call runs nothing)  *)
(* and produces one instance for each raw row of the body, already         *)
(* attached (stored) and of the connector-bound class it was called on,    *)
(* not of the declaration; it ends when the body ends, and once ended it   *)
(* yields nothing more.                                                    *)
(***************************************************************************)
C17_GetYieldsBoundInstances ==
    [][ /\ \A cls \in ClientClasses :
               GetCall(cls) => (~ret'.body /\ ret'.exc = "none" /\ obj' = obj)
        /\ \A b \in GetBodies(rows.cls.name) :
               (GetNext(b) /\ rows.cls.db # <<>>) =>
                   IF rows.st = "done"
                   THEN /\ ret'.exc = "StopIteration"
                        /\ ~ret'.body
                        /\ obj' = obj
                        /\ rows' = rows
                   ELSE IF b.raised = "none"
                   THEN /\ ret'.exc = "none"
                        /\ obj'.cls = rows.cls
                        /\ obj'.cls # DeclaredClass(rows.cls.name)
                        /\ obj'.given = b.res
                        /\ obj'._attached
                        /\ Stored(obj')
                        /\ rows'.st = "running"
                   ELSE /\ ret'.exc = b.raised
                        /\ rows'.st = "done"
                        /\ obj' = obj ]_vars

\* A producer of a bound class that delivered instances has ended.
C17_Witness ==
    /\ ret.op = "next"
    /\ ret.exc = "StopIteration"
    /\ rows.st = "done"
    /\ rows.left >= 1
    /\ rows.cls.db # <<>>
    /\ obj.cls = rows.cls
    /\ obj._attached

(***************************************************************************)
(* C18.  attach() of a class whose name the connector already has as an    *)
(* attribute fails with AttributeError (and only then), and every name a   *)
(* connector exposed before the call still refers to the same class.       *)
(***************************************************************************)
C18_Collides(c, cs) ==
    \E i \in DOMAIN cs :
        \/ names[c][cs[i].name] # NoClass
        \/ \E j \in 1..(i - 1) : cs[j].name = cs[i].name

C18_ConflictKeepsAttachments ==
    [][ \A c \in Connectors : \A cs \in AttachLists :
            Attach(c, cs) =>
                /\ (ret'.exc = "AttributeError") <=> C18_Collides(c, cs)
                /\ \A d \in Connectors, n \in Declared :
                       names[d][n] # NoClass => names'[d][n] = names[d][n]
      ]_vars

C18_Witness ==
    /\ ret.op = "attach"
    /\ ret.exc = "AttributeError"
    /\ \E c \in Connectors, n \in Declared :
           /\ names[c][n] # NoClass
           /\ \E cls \in _attached[c] : cls.name = n /\ cls # names[c][n]

(***************************************************************************)
(* C19.  A derivation chain resolves to one connector: attaching a class   *)
(* that is bound to one connector to a different connector raises a        *)
(* naming conflict, and no connector exposes a class whose chain was bound *)
(* to another connector.                                                   *)
(***************************************************************************)
C19_OneConnectorPerChain ==
    [][ \A c \in Connectors : \A cs \in AttachLists :
            (Attach(c, cs)
                /\ \E i \in DOMAIN cs : cs[i].db # <<>> /\ ClassDb(cs[i]) # c) =>
                /\ ret'.exc = "AttributeError"
                /\ \A d \in Connectors, n \in Declared :
                       \A i \in DOMAIN names'[d][n].db : names'[d][n].db[i] = d
      ]_vars

(***************************************************************************)
(* C20.  Constructing an instance of a class with N columns from exactly   *)
(* N positional values succeeds, and iterating the instance yields N       *)
(* values in declared order, the i-th being encode(decode(value i)) for    *)
(* the hooks of column i (the value itself without hooks); iterating       *)
(* again yields the same.                                                  *)
(***************************************************************************)
C20_Expected(n, args) ==
    [i \in DOMAIN Fields(n) |->
        Encode(n, Fields(n)[i], Decode(n, Fields(n)[i], args[i]))]

C20_ConstructThenIterate ==
    [][ /\ \A cls \in ClientClasses :
           \A args \in ValueLists(cls.name, Len(Fields(cls.name))) :
               New(cls, args, {}) =>
                   /\ ret'.exc = "none"
                   /\ obj'.cls = cls
                   /\ obj'.given = args
                   /\ obj'.fresh
        /\ (Iterate /\ obj.fresh /\ Len(obj.given) = Len(Fields(obj.cls.name))) =>
               /\ ret'.val = Tuple(C20_Expected(obj.cls.name, obj.given))
               /\ Len(ret'.val.v) = Len(Fields(obj.cls.name))
               /\ obj' = obj ]_vars

\* A column that neither the positional values nor the keywords fill.
C21_Unfilled(n, args, kw) ==
    \E i \in DOMAIN Fields(n) :
        i > Len(args) /\ \A p \in kw : p[1] # Fields(n)[i]

(***************************************************************************)
(* C21.  Constructing a Record with fewer positional values than declared  *)
(* columns and no keyword for some unfilled column fails with TypeError,   *)
(* and so does constructing with more positional values than declared      *)
(* columns; in both cases no instance is produced.                         *)
(***************************************************************************)
\* Either the step ended with TypeError and the client's instance is the
\* one it had, or the step is no construction from such values.
C21_WrongArityRefused ==
    [][ \/ (ret'.exc = "TypeError" /\ obj' = obj)
        \/ \A cls \in ClientClasses : \A args \in ArgLists(cls.name) :
           \A kw \in KwLists(cls.name, args) :
               (C21_Unfilled(cls.name, args, kw)
                   \/ Len(args) > Len(Fields(cls.name))) =>
                   ~New(cls, args, kw) ]_vars

\* A construction with one value too many was refused while the client
\* held an instance built before.
C21_Witness ==
    /\ ret.op = "new"
    /\ ret.exc = "TypeError"
    /\ obj # NoObj
    /\ Cardinality({i \in DOMAIN ret.hooks : ret.hooks[i].hook = "_fdeco"}) = 1

\* The columns after the positional values.
C22_RestNames(n, args) ==
    {Fields(n)[i] : i \in {j \in DOMAIN Fields(n) : j > Len(args)}}

(***************************************************************************)
(* C22.  Construction assigns positional values to columns left to right   *)
(* and takes every remaining column from the keyword of the same name; a   *)
(* keyword left unconsumed (one naming a column already filled             *)
(* positionally, or naming no column) is a TypeError.                      *)
(***************************************************************************)
C22_PositionalThenKeywords ==
    [][ \A cls \in ClientClasses : \A args \in ArgLists(cls.name) :
        \A kw \in KwLists(cls.name, args) :
            New(cls, args, kw) =>
                LET n == cls.name
                    given == {p[1] : p \in kw}
                IN  /\ (Len(args) <= Len(Fields(n))
                          /\ given = C22_RestNames(n, args)) =>
                          /\ ret'.exc = "none"
                          /\ obj'.cls = cls
                          /\ \A i \in DOMAIN Fields(n) :
                                Attr(obj', Fields(n)[i]) =
                                    Decode(n, Fields(n)[i],
                                           IF i <= Len(args) THEN args[i]
                                           ELSE (CHOOSE p \in kw :
                                                    p[1] = Fields(n)[i])[2])
                    /\ (given \ C22_RestNames(n, args) # {}) =>
                          (ret'.exc = "TypeError" /\ obj' = obj) ]_vars

(***************************************************************************)
(* C23.  A column's decoding hook is applied exactly once, at              *)
(* construction, to the supplied value (positional or keyword) and its     *)
(* result is what the private slot holds; the encoding hook is applied     *)
(* only when the instance is iterated, to the slot value, and never        *)
(* changes the slot.                                                       *)
(***************************************************************************)
C23_DecodeOnceEncodeOnIteration ==
    [][ /\ (ret'.op = "new" /\ ret'.exc = "none") =>
               \A cls \in {c \in ClientClasses : c.name = "Cliente"} :
               \A args \in ArgLists(cls.name) :
               \A kw \in KwLists(cls.name, args) :
                   New(cls, args, kw) =>
                       LET v == IF Len(args) >= 2 THEN args[2]
                                ELSE (CHOOSE p \in kw : p[1] = "sexo")[2]
                       IN  /\ ret'.hooks = <<HookCall("_fdeco", "sexo", v)>>
                           /\ obj'.slots["sexo"] = Sexo_decode(v)
        /\ (Iterate /\ obj.cls.name = "Cliente") =>
               /\ ret'.hooks = <<HookCall("_fco", "sexo", obj.slots["sexo"])>>
               /\ ret'.val.v[2] = Sexo_encode(obj.slots["sexo"])
               /\ obj' = obj
        /\ (Iterate /\ obj.cls.name # "Cliente") => ret'.hooks = <<>>
        /\ \A b \in InsertBodies : Insert(b) => ret'.hooks = <<>>
        /\ \A b \in RemoveBodies : Remove(b) => ret'.hooks = <<>> ]_vars

\* An instance was built with the hooked column given by keyword, and the
\* slot holds the decoded value.
C23_Witness ==
    /\ ret.op = "new"
    /\ ret.exc = "none"
    /\ obj.cls.name = "Cliente"
    /\ Len(obj.given) = 1
    /\ ret.hooks = <<HookCall("_fdeco", "sexo", "VARON")>>
    /\ obj.slots["sexo"] = "Sexo.VARON"

(***************************************************************************)
(* C24.  For a class with a composite key, an insert() whose body returns  *)
(* gives back the tuple of the instance's current key values in declared   *)
(* key order, ignores what the body returned and writes back into no       *)
(* column.                                                                 *)
(***************************************************************************)
C24_CompositeKeyReturned ==
    [][ \A k \in InsertReturns :
            (Insert(Returns(k)) /\ ret'.exc = "none"
                /\ obj.cls.name = "Cotizacion") =>
                /\ ret'.val = Tuple(<<obj.slots["isin"], obj.slots["fecha"]>>)
                /\ obj'.slots = obj.slots
                /\ obj'.fresh = obj.fresh ]_vars

\* A composite-key instance with an empty key column was inserted by a
\* body that returned a key.
C24_Witness ==
    /\ ret.op = "insert"
    /\ ret.exc = "none"
    /\ ret.body
    /\ obj.cls.name = "Cotizacion"
    /\ obj.slots["isin"] = "None"
    /\ ret.val = Tuple(<<"None", obj.slots["fecha"]>>)
    /\ Stored(obj)

(***************************************************************************)
(* C25.  With a sink configured, the trace hook stays installed for the    *)
(* whole lifetime of the outermost statement-log scope: entering a nested  *)
(* log scope does not install it again, exiting a nested log scope does    *)
(* not remove it, and it is removed exactly when the outermost log scope   *)
(* closes without error.                                                   *)
(***************************************************************************)
C25_HookForOutermostScope ==
    [][ logger = "sink" =>
          /\ (LogEnter /\ NLog >= 1) =>
                 /\ ~CalledIn(calls', "set_trace_callback")
                 /\ trace_callback' = trace_callback
          /\ (LogExit /\ NLog > 1) =>
                 /\ ~CalledIn(calls', "set_trace_callback")
                 /\ trace_callback' = trace_callback
          /\ (LogExit /\ NLog = 1) =>
                 (CalledIn(calls', "set_trace_callback") <=> exc = NoExc)
      ]_vars

(***************************************************************************)
(* C26.  On a connector built without a sink, entering and leaving a       *)
(* statement-log scope sends nothing to the backend, installs no trace     *)
(* hook and leaves the statement buffer empty.                             *)
(***************************************************************************)
C26_NoSinkNoLogging ==
    [][ (logger = "None" /\ (LogEnter \/ LogExit)) =>
          /\ calls' = <<>>
          /\ ~trace_callback'
          /\ _buffer' = <<>> ]_vars

\* The word carries the asterisk.
C27_Starred(w) == w.star

C28_PopsTheCursorItPushed ==
    [][ /\ OpExit => Top(_cursor) = Top(frames).cur
        /\ \A g \in 1..MaxGens :
               ((GenResume(g) \/ GenClose(g)) /\ gens[g].st = "open"
                    /\ gens'[g].st = "none") =>
                   Top(_cursor) = gens[g].cur ]_vars

\* What the hook writes for statement s.
C29_Entry(s) == <<s, ";", "\n">>

C30_Access ==
    /\ ret'.op = "fondo"
    /\ \E exposed \in BOOLEAN : \E b \in AllFondoBodies :
           Cuenta_fondo(exposed, b)

\* The instance reaches no connector: it is not `_attached`, or its class
\* was bound to none.
C30_Unbound(o) == InstanceDb(o) \in {"AttributeError", "None"}

(* C30, as stated.  Cuenta.fondo resolves the fund through the connector  *)
(* on first access and caches it on the instance: for one instance at     *)
(* most one backend lookup is ever made, every later access returns the   *)
(* cached entity, and an access on an instance that is not                *)
(* connector-bound raises AttributeError without caching anything.        *)
C30_AtMostOneLookupEver ==
    [][ C30_Access =>
            /\ Lookups(obj') <= 1
            /\ Cached(obj) =>
                   /\ ret'.exc = "none"
                   /\ ret'.val = Entity(obj._fondo)
            /\ (~Cached(obj) /\ C30_Unbound(obj)) =>
                   /\ ret'.exc = "AttributeError"
                   /\ ~Cached(obj') ]_vars

(* C30, amended.  Once a lookup has found the fund it is kept on the      *)
(* instance: every later access returns that same entity and makes no     *)
(* lookup, whatever became of the instance's attachment meanwhile.  A     *)
(* lookup that finds no row or fails raises (StopIteration, or the error  *)
(* of the query), caches nothing, and the next access looks up again.     *)
(* With nothing cached, an access on an instance that is not `_attached`  *)
(* or whose class is bound to no connector raises AttributeError, makes   *)
(* no lookup and caches nothing.  The entity found is an `_attached`      *)
(* instance of the Fondo class of the instance's connector.               *)
C30_NoLookupOnceFound ==
    [][ /\ C30_Access =>
               /\ Cached(obj) =>
                      /\ obj' = obj
                      /\ ~ret'.body
                      /\ ret'.exc = "none"
                      /\ ret'.val = Entity(obj._fondo)
               /\ (~Cached(obj) /\ C30_Unbound(obj)) =>
                      /\ ret'.exc = "AttributeError"
                      /\ ~ret'.body
                      /\ obj' = obj
               /\ ret'.body <=> Lookups(obj') = Lookups(obj) + 1
               /\ ret'.body => ~Cached(obj)
               /\ (ret'.body /\ ret'.exc = "none") =>
                      /\ Cached(obj')
                      /\ ret'.val = Entity(obj'._fondo)
                      /\ obj'._fondo.cls = FondoClass(InstanceDb(obj))
                      /\ obj'._fondo._attached
               /\ ret'.exc # "none" => ~Cached(obj')
        /\ (obj # NoObj /\ Cached(obj) /\ obj' # obj /\ ret'.op # "new") =>
               /\ Cached(obj')
               /\ obj'._fondo = obj._fondo
               /\ Lookups(obj') = Lookups(obj) ]_vars

\* A first lookup found nothing, a second one found the fund, and a later
\* access was served from the instance.
C30_Witness ==
    /\ obj # NoObj
    /\ Cached(obj)
    /\ Lookups(obj) = 2
    /\ ret.op = "fondo"
    /\ ~ret.body
    /\ ret.exc = "none"
    /\ ret.val = Entity(obj._fondo)

(***************************************************************************)
(* C39.  For a class with a single key column, insert() on an instance     *)
(* whose key already reads a value other than None never overwrites it:    *)
(* after an insert whose body returned, the key holds the value it held,   *)
(* insert() returned that value, and the key the body returned is          *)
(* discarded.                                                              *)
(***************************************************************************)
C39_KeyNeverOverwritten ==
    [][ \A k \in InsertReturns :
            (Insert(Returns(k)) /\ ret'.exc = "none"
                /\ Len(PkFields(obj.cls.name)) = 1
                /\ Attr(obj, PkFields(obj.cls.name)[1]) # "None") =>
                /\ obj'.slots = obj.slots
                /\ ret'.val = Scalar(obj.slots[PkFields(obj.cls.name)[1]]) ]_vars

\* An instance built with its key was inserted by a body that returned
\* another key: the instance is stored under the key it had.
C39_Witness ==
    /\ ret.op = "insert"
    /\ ret.exc = "none"
    /\ ret.body
    /\ ret.val = Scalar("1")
    /\ ret.val.v[1] \notin InsertReturns
    /\ obj.cls.name = "Cliente"
    /\ obj.fresh
    /\ obj.slots["id"] = "1"
    /\ Stored(obj)

(***************************************************************************)
(* C40.  If the remove body raises on a stored instance, the exception     *)
(* reaches the caller and the instance is as it was (it stays stored), so  *)
(* remove() can be tried again; remove() detaches an instance only when    *)
(* the body completed.                                                     *)
(***************************************************************************)
C40_FailedRemoveKeepsStored ==
    [][ \A b \in RemoveBodies :
            Remove(b) =>
                /\ (Stored(obj) /\ b.raised # "none") =>
                       /\ ret'.exc = b.raised
                       /\ ret'.body
                       /\ obj' = obj
                       /\ Stored(obj')
                /\ (Stored(obj) /\ ~Stored(obj')) =>
                       (ret'.body /\ b.raised = "none"
                           /\ ret'.exc = "none") ]_vars

\* A remove body raised on a stored instance, which is still stored.
C40_Witness ==
    /\ ret.op = "remove"
    /\ ret.body
    /\ ret.exc = "IntegrityError"
    /\ obj # NoObj
    /\ Stored(obj)

(***************************************************************************)
(* C34.  In every reachable state of a connector a cursor stack that is    *)
(* not empty implies a session depth above 0: no cursor is open while no   *)
(* session is, also when a producer started inside a session is not yet    *)
(* exhausted when the outermost session scope exits.                       *)
(***************************************************************************)
C34_CursorOnlyInsideSession ==
    _cursor # <<>> => _transaction > 0

(***************************************************************************)
(* C35.  For a producer of a @cursor generator method the open-session     *)
(* check is made when the first row is requested, not when the producer    *)
(* is created: creating it never fails and calls nothing, inside a session *)
(* or outside; a producer created inside a session and first consumed      *)
(* when no session is open fails with TransactionError at that request,    *)
(* before any cursor is made; one created outside any session and first    *)
(* consumed inside one passes the check and gets its cursor.               *)
(***************************************************************************)
C35_SessionCheckedAtFirstRequest ==
    [][ \A g \in 1..MaxGens :
            /\ GenCreate(g) =>
                   /\ exc' = NoExc
                   /\ calls' = <<>>
                   /\ gens'[g].st = "created"
            /\ (GenStart(g) /\ gens[g].d0 > 0 /\ _transaction = 0) =>
                   /\ exc' = Exc(FALSE, "TransactionError", 0)
                   /\ calls' = <<>>
                   /\ _cursor' = _cursor
                   /\ gens'[g].st = "none"
            /\ (GenStart(g) /\ gens[g].d0 = 0 /\ _transaction > 0) =>
                   /\ exc'.name # "TransactionError"
                   /\ CalledIn(calls', "cursor") ]_vars

\* A producer created outside any session delivered its first row inside
\* one.
C35_Witness ==
    \E g \in 1..MaxGens :
        /\ gens[g].st = "open"
        /\ gens[g].d0 = 0
        /\ _transaction > 0
        /\ OnStack(gens[g].cur)
        /\ exc = NoExc

(***************************************************************************)
(* C36.  attach(classes) is all-or-nothing: when it fails with a naming    *)
(* conflict on one class of the list, the connector's set of attached      *)
(* classes and the classes it exposes by name are what they were before    *)
(* the call.                                                               *)
(***************************************************************************)
C36_AttachAllOrNothing ==
    [][ \A c \in Connectors : \A cs \in AttachLists :
            (Attach(c, cs) /\ ret'.exc = "AttributeError") =>
                /\ _attached' = _attached
                /\ names' = names ]_vars

(***************************************************************************)
(* C37.  Whenever no statement-log scope is active on a connector, no      *)
(* trace hook is installed on its connection and the log nesting counter   *)
(* is 0, never negative: after any sequence of log-scope enters and exits, *)
(* exits with an exception pending, nested scopes and connectors without   *)
(* a sink included.                                                        *)
(***************************************************************************)
C37_NoScopeNoHook ==
    NLog = 0 => (~trace_callback /\ incontext = 0)

(***************************************************************************)
(* C38.  After every outermost session exit the statement buffer is empty  *)
(* and the session depth is 0, whatever the outcome of the physical step:  *)
(* also when commit, rollback or the sink raises during the exit.          *)
(***************************************************************************)
C38_OutermostExitEmptiesBuffer ==
    [][ (SessionExit /\ _transaction' = 0) =>
            _buffer' = <<>> ]_vars

(***************************************************************************)
(* C31.  For a scraper, after any sequence of connect, extract, cotizacion *)
(* and disconnect calls, `connected` is true exactly when some connect     *)
(* has succeeded since the last disconnect (or since construction): a      *)
(* connect that fails with ConnectionError leaves the fetched page, the    *)
(* date and the span unchanged, and disconnect resets page, content type,  *)
(* date, span and fetched quotes to None.                                  *)
(***************************************************************************)
C31_ConnectedIffConnectSucceeded ==
    /\ [](connected(scraper) <=> linked)
    /\ [][ /\ \A fecha \in Fechas, delta \in Deltas, resp \in Responses :
                  (Connect(fecha, delta, resp)
                      /\ ret'.exc = "ConnectionError") =>
                      /\ scraper'._page = scraper._page
                      /\ scraper'._fecha = scraper._fecha
                      /\ scraper'._delta = scraper._delta
           /\ Disconnect =>
                  /\ scraper'._page = "None"
                  /\ scraper'._content_type = "None"
                  /\ scraper'._fecha = "None"
                  /\ scraper'._delta = "None"
                  /\ scraper'._cotizacion = "None" ]_vars

\* A connect was refused by the server on a scraper that holds the page,
\* the date and the span of an earlier connect.
C31_Witness ==
    /\ ret.op = "connect"
    /\ ret.exc = "ConnectionError"
    /\ requests = <<Request("None", "None")>>
    /\ connected(scraper)
    /\ linked
    /\ scraper._fecha = "2016-12-31"
    /\ scraper._delta = "30"

(***************************************************************************)
(* C32.  extract(reparse=False) on a connected scraper fails with          *)
(* AlreadyConnectedError and changes nothing of the scraper; on a          *)
(* disconnected scraper extract first connects with the stored date and    *)
(* span and then parses; reading `cotizacion` when no quotes were fetched  *)
(* yet derives them on demand, connecting first if needed, and never       *)
(* raises AlreadyConnectedError.                                           *)
(***************************************************************************)
C32_ExtractAndQuotesOnDemand ==
    [][ \A resp \in Responses, parsed \in ParseOutcomes :
            /\ (Extract(FALSE, resp, parsed) /\ connected(scraper)) =>
                   /\ ret'.exc = "AlreadyConnectedError"
                   /\ scraper' = scraper
                   /\ requests' = <<>>
            /\ \A reparse \in BOOLEAN :
                   (Extract(reparse, resp, parsed) /\ ~connected(scraper)) =>
                       /\ requests' = <<Request(scraper._fecha, scraper._delta)>>
                       /\ ret'.exc = "ConnectionError" => scraper' = scraper
                       /\ ret'.exc = "none" =>
                              /\ connected(scraper')
                              /\ scraper'._cotizacion = "quotes"
            /\ Cotizacion(resp, parsed) =>
                   /\ ret'.exc # "AlreadyConnectedError"
                   /\ scraper._cotizacion = "None" =>
                          /\ ret'.body
                          /\ ~connected(scraper) => Len(requests') = 1
                          /\ ret'.exc = "none" =>
                                 /\ ret'.val = Scalar("quotes")
                                 /\ scraper'._cotizacion = "quotes" ]_vars

\* The quotes were derived on demand on a scraper that was connected and
\* had none: no page was asked for, and no error raised.
C32_Witness ==
    /\ ret.op = "cotizacion"
    /\ ret.body
    /\ ret.exc = "none"
    /\ requests = <<>>
    /\ connected(scraper)
    /\ scraper._cotizacion = "quotes"

(***************************************************************************)
(* C33.  Constructing SQLiteConector on a database with no tables, when no *)
(* schema file is given or it cannot be read, raises the DatabaseError of  *)
(* the taxonomy to the caller: the connection is closed inside the schema  *)
(* check, and the DatabaseError is still the exception in flight after     *)
(* the cursor scope and after the session scope unwound on the closed      *)
(* connection.                                                             *)
(***************************************************************************)
C33_DatabaseErrorLeavesConstructor ==
    [][ ((OpExit \/ SessionExit) /\ closed
            /\ exc = Exc(FALSE, "DatabaseError", exc.at)) =>
            exc' = exc ]_vars

====
